---- MODULE Spec2Model ----
(***************************************************************************)
(* Model of syz-fuzzer/proc.go: the per-process fuzzing loop (Proc.loop),  *)
(* the execution driver (Proc.execute, Proc.executeRaw), the triage engine *)
(* (Proc.triageInput) and the smash engine (Proc.smashInput, failCall,     *)
(* executeHintSeed), run by several Procs over the shared signal sets,     *)
(* the work queue, the corpus, the gate and the two locks.                 *)
(*                                                                         *)
(* Call indices are 0-based as in Go; a per-call result of call c is       *)
(* info[c + 1].                                                            *)
(***************************************************************************)
EXTENDS Integers, Sequences, FiniteSets, Bags, TLC

VARIABLES
    cfg,           \* the configuration of this run (flags, the environment's repertoire)
    w,             \* w[p]: the goroutine of Proc p: position, locals, arguments
    maxSignal,     \* the global maxSignal
    newSignal,     \* the global newSignal
    corpusSignal,  \* the global corpusSignal
    corpus,        \* fuzzer.corpus, append-only
    workQueue,     \* fuzzer.workQueue, a bag of work items
    rlocked,       \* the Procs holding signalMu for reading
    wlocked,       \* the Proc holding signalMu for writing, or 0
    logMu,         \* the Proc holding logMu, or 0
    writing,       \* the Procs inside a write to the diagnostic sink
    gate,          \* gate[p]: the tickets of fuzzer.gate Proc p holds
    reports,       \* the Manager.NewInput calls that succeeded, in order
    execs,         \* the env.Exec calls left before the process is stopped from
                   \* outside, or -1 when it is left running
    errs,          \* the transient errors env.Exec still has to return
    fatal,         \* "" while the process runs, otherwise what it panicked with
    published      \* history: the work items, as dequeued, whose triage added
                   \* their signal to corpusSignal

vars == <<cfg, w, maxSignal, newSignal, corpusSignal, corpus, workQueue,
          rlocked, wlocked, logMu, writing, gate, reports, execs, errs, fatal,
          published>>

(***************************************************************************)
(* Bounds of the model.                                                    *)
(***************************************************************************)
NProcs == 2          \* Procs of the concurrent configurations
SigMax == 2          \* signal identifiers are 1..SigMax
MaxSigLen == 2       \* length of a raw per-call signal
MaxCalls == 2        \* calls of a program
CovMax == 1          \* coverage addresses are 1..CovMax
MaxIterShort == 2    \* loop iterations of a Proc, concurrent configurations
MaxIterSeq == 3      \* loop iterations of a Proc, sequential configurations
MaxIterLong == 102   \* loop iterations of a Proc, the quiet configuration
MaxExecsShort == 4   \* env.Exec calls, concurrent configurations
MaxErrs == 13        \* transient errors of env.Exec, the flaky configuration
FaultPoints == 5     \* faultable trial points of a call, the faulted configuration

(***************************************************************************)
(* Constants of the program.                                               *)
(***************************************************************************)
GenPeriod == 100     \* i%100 == 0
RetryLimit == 10     \* try > 10
TriageRuns == 3      \* for i := 0; i < 3; i++
SmashIters == 100    \* for i := 0; i < 100; i++
FailCap == 100       \* for nth := 0; nth < 100; nth++

Procs == 1..NProcs
SigIds == 1..SigMax

(***************************************************************************)
(* pkg/cover: the signal algebra.  A raw signal is a sequence of           *)
(* identifiers (a []uint32, unsorted, duplicates possible); the three      *)
(* global sets are maps, modelled as sets.                                 *)
(***************************************************************************)
Range(s) == {s[k] : k \in 1..Len(s)}

RawSignals == UNION {[1..n -> SigIds] : n \in 0..MaxSigLen}

SignalNew(base, signal) == \E k \in 1..Len(signal) : signal[k] \notin base

SignalDiff(base, signal) == SelectSeq(signal, LAMBDA x : x \notin base)

SignalAdd(base, signal) == base \cup Range(signal)

RECURSIVE SortedSeq(_)
SortedSeq(S) ==
    IF S = {} THEN <<>>
    ELSE LET m == CHOOSE x \in S : \A y \in S : x <= y
         IN  <<m>> \o SortedSeq(S \ {m})

Canonicalize(s) == SortedSeq(Range(s))

Intersection(s0, s1) == SelectSeq(s0, LAMBDA x : x \in Range(s1))

Union(c0, c1) == SortedSeq(Range(c0) \cup Range(c1))

(***************************************************************************)
(* prog: a program is the sequence of its calls; call k of a generated     *)
(* program is syscall k, and removing calls keeps the order.               *)
(***************************************************************************)
Progs == {SortedSeq(S) : S \in (SUBSET (1..MaxCalls)) \ {{}}}

Clone(p) == p

\* target.Generate: any program of the configuration's repertoire.
Generate == cfg.progs

\* p.Mutate(rnd, programLength, ct, corpus): any program of the repertoire.
Mutate(p, snapshot) == cfg.progs

\* p.removeCall(i), i 0-based.
removeCall(p, i) == SubSeq(p, 1, i) \o SubSeq(p, i + 2, Len(p))

(***************************************************************************)
(* Work items (WorkTriage, WorkCandidate, WorkSmash) as one record shape.  *)
(***************************************************************************)
NoItem == [kind |-> "none", p |-> <<>>, call |-> 0, signal |-> <<>>,
           minimized |-> FALSE, candidate |-> FALSE]

WorkTriage(p, call, signal, candidate, minimized) ==
    [kind |-> "triage", p |-> p, call |-> call, signal |-> signal,
     minimized |-> minimized, candidate |-> candidate]

WorkCandidate(p, minimized) ==
    [kind |-> "candidate", p |-> p, call |-> 0, signal |-> <<>>,
     minimized |-> minimized, candidate |-> FALSE]

WorkSmash(p, call) ==
    [kind |-> "smash", p |-> p, call |-> call, signal |-> <<>>,
     minimized |-> FALSE, candidate |-> FALSE]

enqueue(q, item) == q (+) SetToBag({item})

Items(q) == BagToSet(q)

remove(q, item) == q (-) SetToBag({item})

(***************************************************************************)
(* ipc.ExecOpts: the flags proc.go sets or clears.                         *)
(***************************************************************************)
NoOpts == [cover |-> FALSE, comps |-> FALSE, collide |-> FALSE,
           fault |-> FALSE, faultCall |-> 0, faultNth |-> 0]

\* proc.fuzzer.execOpts
execOpts == [NoOpts EXCEPT !.collide = TRUE]

(***************************************************************************)
(* ipc.Env.Exec: what one run of a program can return.  A successful run   *)
(* returns no per-call results at all or one result per call; cover, the   *)
(* fault-injected mark and comparison operands are reported only when the  *)
(* options ask for them.                                                   *)
(***************************************************************************)
Covers == {SortedSeq(S) : S \in SUBSET (1..CovMax)}

CallInfos(opts) ==
    [Signal : cfg.envSigs,
     Cover : IF opts.cover THEN Covers ELSE {<<>>},
     FaultInjected : IF opts.fault
                     THEN IF cfg.faultPoints < 0 THEN BOOLEAN
                          ELSE {opts.faultNth < cfg.faultPoints}
                     ELSE {FALSE},
     Comps : IF opts.comps THEN {0, 1} ELSE {0}]

Infos(p, opts) ==
    (IF cfg.envNoInfo THEN {<<>>} ELSE {}) \cup [1..Len(p) -> CallInfos(opts)]

\* The errors env.Exec may return now.
EnvErrs ==
    {"nil"} \cup (IF errs > 0 THEN {"transient"} ELSE {})
            \cup (IF cfg.envFatal THEN {"ExecutorFailure"} ELSE {})

EnvFailed == {FALSE} \cup (IF cfg.envBug THEN {TRUE} ELSE {})

\* No result of env.Exec yet.
NoOut == [failed |-> FALSE, err |-> "nil", class |-> ""]

(***************************************************************************)
(* A Proc.                                                                 *)
(***************************************************************************)
Idle ==
    [pc |-> "loop", i |-> 0,
     \* history: the path of the last iteration, the idle iterations so far
     path |-> "", idle |-> 0, pathIdle |-> 0, pathCorpus |-> 0,
     \* the work item in hand, and (history) as it was dequeued
     item |-> NoItem, dq |-> NoItem,
     \* execute: arguments and locals
     eP |-> <<>>, eMin |-> FALSE, eCand |-> FALSE, eCaller |-> "",
     eOpts |-> NoOpts, idx |-> 0, diff |-> <<>>,
     \* history: the results this execute found new, the items it enqueued
     novel |-> <<>>, enq |-> <<>>,
     \* executeRaw: arguments and locals
     rP |-> <<>>, rOpts |-> NoOpts, rCaller |-> "", try |-> 0,
     \* history: the env.Exec calls of the executeRaw in progress or last
     \* ended, and what the last of them returned
     rExecs |-> 0, rOut |-> NoOut,
     \* what the last executeRaw returned
     info |-> <<>>,
     \* triageInput: newSignal, the loop counter, notexecuted, inputCover
     tNew |-> <<>>, n |-> 0, notexecuted |-> FALSE, inputCover |-> <<>>,
     \* history: the runs of the loop over a not minimized item that did not
     \* execute the call
     missed |-> <<>>,
     \* prog.Minimize: p0, callIndex0, the loop counter, the reduced program
     \* and call given to the predicate
     mP |-> <<>>, mCall |-> 0, mI |-> 0, tryP |-> <<>>, tryCall |-> 0,
     \* smashInput, failCall, executeHintSeed: the corpus snapshot, the loop
     \* counters, the hint mutants still to run
     snapshot |-> <<>>, nth |-> 0, hints |-> 0]

(***************************************************************************)
(* The configurations.                                                     *)
(***************************************************************************)
BaseCfg ==
    [name |-> "", procs |-> {1}, maxIter |-> MaxIterSeq,
     maxExecs |-> -1, progs |-> {<<1>>},
     envSigs |-> {<<>>, <<1>>}, envNoInfo |-> FALSE,
     errLimit |-> 0, envFatal |-> FALSE, envBug |-> FALSE, rpcFails |-> FALSE,
     faultInjectionEnabled |-> FALSE, compsSupported |-> FALSE,
     faultPoints |-> -1,
     flagOutput |-> "none",
     queue |-> EmptyBag, corpus |-> <<>>, signal |-> {}]

\* Two Procs race over two equal, already minimized candidates.
Concurrent ==
    [BaseCfg EXCEPT !.name = "concurrent", !.procs = Procs,
                    !.maxIter = MaxIterShort, !.maxExecs = MaxExecsShort,
                    !.envSigs = {<<>>, <<1>>, <<2, 1>>}, !.envBug = TRUE,
                    !.queue = enqueue(SetToBag({WorkCandidate(<<1>>, TRUE)}),
                                      WorkCandidate(<<1>>, TRUE))]

\* One Proc, every raw signal and program, a candidate that is not minimized.
Sequential ==
    [BaseCfg EXCEPT !.name = "sequential", !.maxIter = MaxIterShort,
                    !.progs = Progs, !.envSigs = RawSignals,
                    !.envNoInfo = TRUE, !.envBug = TRUE, !.rpcFails = TRUE,
                    !.queue = SetToBag({WorkCandidate(SortedSeq(1..MaxCalls), FALSE)})]

\* One Proc takes a candidate through triage and smash.
Smash(fault, comps) ==
    [BaseCfg EXCEPT !.name = "smash", !.envNoInfo = TRUE,
                    !.progs = {<<1>>, <<2>>},
                    !.faultInjectionEnabled = fault, !.compsSupported = comps,
                    !.queue = SetToBag({WorkCandidate(<<1>>, FALSE)})]

\* One Proc smashes a program whose call has FaultPoints faultable points:
\* a fault is injected at trial nth exactly when nth < FaultPoints.
Faulted ==
    [BaseCfg EXCEPT !.name = "faulted", !.faultInjectionEnabled = TRUE,
                    !.faultPoints = FaultPoints,
                    !.queue = SetToBag({WorkCandidate(<<1>>, FALSE)})]

\* One Proc runs on over a corpus whose signal is all the target has.
Quiet(candidates) ==
    [BaseCfg EXCEPT !.name = "quiet", !.maxIter = MaxIterLong,
                    !.envSigs = {<<1>>}, !.queue = candidates,
                    !.corpus = <<<<1>>>>, !.signal = {1}]

\* One Proc against an environment that keeps failing.
Flaky ==
    [BaseCfg EXCEPT !.name = "flaky", !.maxIter = 1, !.errLimit = MaxErrs,
                    !.envFatal = TRUE, !.envBug = TRUE,
                    !.queue = SetToBag({WorkCandidate(<<1>>, TRUE)})]

\* Two Procs mirror the programs they execute to a diagnostic sink.
Mirrored(output) ==
    [BaseCfg EXCEPT !.name = "mirrored", !.procs = Procs, !.maxIter = 1,
                    !.flagOutput = output]

Configs ==
    {Concurrent, Sequential, Flaky, Faulted}
        \cup {Smash(f, c) : f \in BOOLEAN, c \in BOOLEAN}
        \cup {Quiet(EmptyBag),
              Quiet(enqueue(SetToBag({WorkCandidate(<<1>>, TRUE)}),
                            WorkCandidate(<<1>>, TRUE)))}
        \cup {Mirrored(o) : o \in {"stdout", "dmesg", "file"}}

Init ==
    /\ cfg \in Configs
    /\ w = [p \in Procs |-> Idle]
    /\ maxSignal = cfg.signal
    /\ newSignal = {}
    /\ corpusSignal = cfg.signal
    /\ corpus = cfg.corpus
    /\ workQueue = cfg.queue
    /\ rlocked = {}
    /\ wlocked = 0
    /\ logMu = 0
    /\ writing = {}
    /\ gate = [p \in Procs |-> 0]
    /\ reports = <<>>
    /\ execs = cfg.maxExecs
    /\ errs = cfg.errLimit
    /\ fatal = ""
    /\ published = {}

Running(p) == p \in cfg.procs /\ fatal = ""

At(p, pc) == Running(p) /\ w[p].pc = pc

(***************************************************************************)
(* fuzzer.gate: Enter blocks while all tickets are out (fuzzer.go makes    *)
(* the gate with 2*procs of them).                                         *)
(***************************************************************************)
GateSize == 2 * Cardinality(cfg.procs)

RECURSIVE Sum(_, _)
Sum(f, S) ==
    IF S = {} THEN 0
    ELSE LET x == CHOOSE x \in S : TRUE IN f[x] + Sum(f, S \ {x})

CanEnter(g) == Sum(g, Procs) < GateSize

Enter(g, p) == [g EXCEPT ![p] = @ + 1]

Leave(g, p) == [g EXCEPT ![p] = @ - 1]

(***************************************************************************)
(* Proc.executeRaw.                                                        *)
(***************************************************************************)
\* An executeRaw whose every caller goes through the hook of execute.
RawRetHooked(caller) == "ex_rlock"

\* Where executeRaw returns to.
RawRet(caller) ==
    CASE caller = "execute" -> "ex_rlock"
      [] caller = "harvest" -> "tri_harvest"
      [] caller = "deflake" -> "tri_deflake"
      [] caller = "failCall" -> "fail_check"

\* The frame of a call of executeRaw made by Proc record r.
CallRaw(r, prog, opts, caller) ==
    [r EXCEPT !.pc = "raw_enter", !.rP = prog, !.rOpts = opts,
              !.rCaller = caller, !.try = 0, !.info = <<>>]

\* ticket := proc.fuzzer.gate.Enter()
RawEnter(p) ==
    /\ At(p, "raw_enter")
    /\ CanEnter(gate)
    /\ gate' = Enter(gate, p)
    /\ w' = [w EXCEPT ![p].rExecs = 0, ![p].rOut = NoOut,
                      ![p].pc = IF cfg.flagOutput = "none" THEN "raw_exec"
                                ELSE "raw_mirror"]
    /\ UNCHANGED <<cfg, maxSignal, newSignal, corpusSignal, corpus, workQueue,
                   rlocked, wlocked, logMu, writing, reports, execs, errs, fatal,
                   published>>

\* A gate whose ticket is given back on a return only, not on a panic.
DeferredOnReturn(g, p, exit) == IF exit = "panic" THEN g ELSE Leave(g, p)

\* defer proc.fuzzer.gate.Leave(ticket): what becomes of the gate when
\* executeRaw is left, by a return or by a panic.
Deferred(g, p, exit) == Leave(g, p)

\* A write to standard output that does not wait for logMu.
MirrorLockFree(p) ==
    /\ At(p, "raw_mirror")
    /\ cfg.flagOutput = "stdout"
    /\ logMu' = p
    /\ writing' = writing \cup {p}
    /\ w' = [w EXCEPT ![p].pc = "raw_logged"]
    /\ UNCHANGED <<cfg, maxSignal, newSignal, corpusSignal, corpus, workQueue,
                   rlocked, wlocked, gate, reports, execs, errs, fatal, published>>

\* case "stdout": logMu.Lock(); Logf(...) begins.
MirrorLock(p) ==
    /\ At(p, "raw_mirror")
    /\ cfg.flagOutput = "stdout"
    /\ logMu = 0
    /\ logMu' = p
    /\ writing' = writing \cup {p}
    /\ w' = [w EXCEPT ![p].pc = "raw_logged"]
    /\ UNCHANGED <<cfg, maxSignal, newSignal, corpusSignal, corpus, workQueue,
                   rlocked, wlocked, gate, reports, execs, errs, fatal, published>>

\* Logf(...) ends; logMu.Unlock()
MirrorUnlock(p) ==
    /\ At(p, "raw_logged")
    /\ logMu' = 0
    /\ writing' = writing \ {p}
    /\ w' = [w EXCEPT ![p].pc = "raw_exec"]
    /\ UNCHANGED <<cfg, maxSignal, newSignal, corpusSignal, corpus, workQueue,
                   rlocked, wlocked, gate, reports, execs, errs, fatal, published>>

\* case "dmesg", "file": the open succeeded; the write begins.
MirrorWrite(p) ==
    /\ At(p, "raw_mirror")
    /\ cfg.flagOutput \in {"dmesg", "file"}
    /\ writing' = writing \cup {p}
    /\ w' = [w EXCEPT ![p].pc = "raw_written"]
    /\ UNCHANGED <<cfg, maxSignal, newSignal, corpusSignal, corpus, workQueue,
                   rlocked, wlocked, logMu, gate, reports, execs, errs, fatal,
                   published>>

\* case "dmesg", "file": the write ends; the file is closed.
MirrorClose(p) ==
    /\ At(p, "raw_written")
    /\ writing' = writing \ {p}
    /\ w' = [w EXCEPT ![p].pc = "raw_exec"]
    /\ UNCHANGED <<cfg, maxSignal, newSignal, corpusSignal, corpus, workQueue,
                   rlocked, wlocked, logMu, gate, reports, execs, errs, fatal,
                   published>>

\* case "dmesg", "file": the open failed (err != nil); nothing is written.
MirrorSkip(p) ==
    /\ At(p, "raw_mirror")
    /\ cfg.flagOutput \in {"dmesg", "file"}
    /\ w' = [w EXCEPT ![p].pc = "raw_exec"]
    /\ UNCHANGED <<cfg, maxSignal, newSignal, corpusSignal, corpus, workQueue,
                   rlocked, wlocked, logMu, writing, gate, reports, execs, errs,
                   fatal, published>>

\* A retry budget spent one attempt earlier than the code spends it.
ShouldPanicEarly(err, try) ==
    IF err = "ExecutorFailure" THEN TRUE ELSE try >= RetryLimit

\* A retry loop with no budget.
ShouldPanicNever(err, try) ==
    IF err = "ExecutorFailure" THEN TRUE ELSE FALSE

\* A retry loop that treats an executor failure as any other error.
ShouldPanicUntyped(err, try) == try > RetryLimit

\* if _, ok := err.(ipc.ExecutorFailure); ok || try > 10 { panic(err) }
ShouldPanic(err, try) ==
    IF err = "ExecutorFailure" THEN TRUE ELSE try > RetryLimit

\* What executeRaw makes of one result of env.Exec.
Classify(failed, err, try) ==
    IF failed THEN "bug"
    ELSE IF err # "nil"
         THEN IF ShouldPanic(err, try) THEN "panic" ELSE "retry"
         ELSE "ok"

\* An executeRaw that hands the results of a failed run to its caller.
BugResultLeak(info) == info

\* if failed { ...; return nil }
BugResult(info) == <<>>

\* The frame after executeRaw returned result.
RawReturn(r, result) ==
    [r EXCEPT !.pc = RawRet(r.rCaller), !.info = result, !.rP = <<>>,
              !.rOpts = NoOpts, !.rCaller = "", !.try = 0]

\* atomic.AddUint64(&proc.fuzzer.stats[stat], 1);
\* output, info, failed, hanged, err := proc.env.Exec(opts, p)
\* The frame with the call counted and its result noted.
Execd(r, failed, err) ==
    [r EXCEPT !.rExecs = @ + 1,
              !.rOut = [failed |-> failed, err |-> err,
                        class |-> Classify(failed, err, r.try)]]

CanExec(p) == At(p, "raw_exec") /\ execs # 0

\* failed: return nil (the deferred Leave runs).
ExecBug(p) ==
    /\ CanExec(p)
    /\ \E failed \in EnvFailed, err \in EnvErrs, info \in Infos(w[p].rP, w[p].rOpts) :
          /\ Classify(failed, err, w[p].try) = "bug"
          /\ w' = [w EXCEPT ![p] = RawReturn(Execd(@, failed, err), BugResult(info))]
    /\ execs' = (IF execs > 0 THEN execs - 1 ELSE execs)
    /\ gate' = Deferred(gate, p, "return")
    /\ UNCHANGED <<cfg, maxSignal, newSignal, corpusSignal, corpus, workQueue,
                   rlocked, wlocked, logMu, writing, reports, errs, fatal,
                   published>>

\* panic(err): the deferred Leave runs, then the process dies.
ExecPanic(p) ==
    /\ CanExec(p)
    /\ \E failed \in EnvFailed, err \in EnvErrs :
          /\ Classify(failed, err, w[p].try) = "panic"
          /\ fatal' = err
          /\ errs' = (IF err = "transient" THEN errs - 1 ELSE errs)
          /\ w' = [w EXCEPT ![p] = [Execd(@, failed, err) EXCEPT !.pc = "panicked"]]
    /\ execs' = (IF execs > 0 THEN execs - 1 ELSE execs)
    /\ gate' = Deferred(gate, p, "panic")
    /\ UNCHANGED <<cfg, maxSignal, newSignal, corpusSignal, corpus, workQueue,
                   rlocked, wlocked, logMu, writing, reports, published>>

\* try++; debug.FreeOSMemory(); time.Sleep(time.Second) begins.
ExecRetry(p) ==
    /\ CanExec(p)
    /\ \E failed \in EnvFailed, err \in EnvErrs :
          /\ Classify(failed, err, w[p].try) = "retry"
          /\ errs' = (IF err = "transient" THEN errs - 1 ELSE errs)
          /\ w' = [w EXCEPT ![p] = [Execd(@, failed, err) EXCEPT
                                       !.try = @ + 1, !.pc = "raw_backoff"]]
    /\ execs' = (IF execs > 0 THEN execs - 1 ELSE execs)
    /\ UNCHANGED <<cfg, maxSignal, newSignal, corpusSignal, corpus, workQueue,
                   rlocked, wlocked, logMu, writing, gate, reports, fatal,
                   published>>

\* The sleep ends; goto retry.
RawBackoff(p) ==
    /\ At(p, "raw_backoff")
    /\ w' = [w EXCEPT ![p].pc = "raw_exec"]
    /\ UNCHANGED <<cfg, maxSignal, newSignal, corpusSignal, corpus, workQueue,
                   rlocked, wlocked, logMu, writing, gate, reports, execs, errs,
                   fatal, published>>

\* return info (the deferred Leave runs).
ExecOk(p) ==
    /\ CanExec(p)
    /\ \E failed \in EnvFailed, err \in EnvErrs, info \in Infos(w[p].rP, w[p].rOpts) :
          /\ Classify(failed, err, w[p].try) = "ok"
          /\ w' = [w EXCEPT ![p] = RawReturn(Execd(@, failed, err), info)]
    /\ execs' = (IF execs > 0 THEN execs - 1 ELSE execs)
    /\ gate' = Deferred(gate, p, "return")
    /\ UNCHANGED <<cfg, maxSignal, newSignal, corpusSignal, corpus, workQueue,
                   rlocked, wlocked, logMu, writing, reports, errs, fatal,
                   published>>

(***************************************************************************)
(* Proc.execute.                                                           *)
(***************************************************************************)
\* opts := *execOpts, with FlagCollectComps set and FlagCollide cleared on demand.
ExecuteOpts(needComps, noCollide) ==
    [execOpts EXCEPT !.comps = IF needComps THEN TRUE ELSE @,
                     !.collide = IF noCollide THEN FALSE ELSE @]

\* The frame of a call of execute made by Proc record r, up to its call of
\* executeRaw.
CallExecute(r, prog, needComps, minimized, candidate, noCollide, caller) ==
    CallRaw([r EXCEPT !.eP = prog, !.eMin = minimized, !.eCand = candidate,
                      !.eCaller = caller,
                      !.eOpts = ExecuteOpts(needComps, noCollide)],
            prog, ExecuteOpts(needComps, noCollide), "execute")

\* Where execute returns to.
ExRet(caller) ==
    CASE caller = "loop" -> "loop"
      [] caller = "pred" -> "min_pred"
      [] caller = "smash" -> "smash_next"
      [] caller = "seed" -> "seed_check"
      [] caller = "hint" -> "hint_next"

\* The frame after a handler called by loop returned: continue / the next i.
ReturnToLoop(r) ==
    [Idle EXCEPT !.i = r.i + 1, !.idle = r.idle]

\* signalMu.RLock(); defer signalMu.RUnlock()
ExRLock(p) ==
    /\ At(p, "ex_rlock")
    /\ wlocked = 0
    /\ rlocked' = rlocked \cup {p}
    /\ w' = [w EXCEPT ![p].pc = "ex_range", ![p].idx = 0]
    /\ UNCHANGED <<cfg, maxSignal, newSignal, corpusSignal, corpus, workQueue,
                   wlocked, logMu, writing, gate, reports, execs, errs, fatal,
                   published>>

\* The results after result idx whose signal is new against maxSignal.
NovelAfter(info, idx, max) ==
    {k \in (idx + 1)..Len(info) : SignalNew(max, info[k].Signal)}

\* A hook that keeps the read lock while it asks for the write lock.
ExNovelUpgrade(p) ==
    /\ At(p, "ex_range")
    /\ NovelAfter(w[p].info, w[p].idx, maxSignal) # {}
    /\ LET k == CHOOSE k \in NovelAfter(w[p].info, w[p].idx, maxSignal) :
                  \A j \in NovelAfter(w[p].info, w[p].idx, maxSignal) : k <= j
       IN  w' = [w EXCEPT ![p].pc = "ex_lock", ![p].idx = k,
                          ![p].novel = Append(@, k),
                          ![p].diff = SignalDiff(maxSignal, w[p].info[k].Signal)]
    /\ UNCHANGED <<cfg, maxSignal, newSignal, corpusSignal, corpus, workQueue,
                   rlocked, wlocked, logMu, writing, gate, reports, execs, errs,
                   fatal, published>>

\* The range loop, under the read lock, up to the next result with new
\* signal: diff := cover.SignalDiff(maxSignal, inf.Signal); signalMu.RUnlock()
ExNovel(p) ==
    /\ At(p, "ex_range")
    /\ NovelAfter(w[p].info, w[p].idx, maxSignal) # {}
    /\ LET k == CHOOSE k \in NovelAfter(w[p].info, w[p].idx, maxSignal) :
                  \A j \in NovelAfter(w[p].info, w[p].idx, maxSignal) : k <= j
       IN  w' = [w EXCEPT ![p].pc = "ex_lock", ![p].idx = k,
                          ![p].novel = Append(@, k),
                          ![p].diff = SignalDiff(maxSignal, w[p].info[k].Signal)]
    /\ rlocked' = rlocked \ {p}
    /\ UNCHANGED <<cfg, maxSignal, newSignal, corpusSignal, corpus, workQueue,
                   wlocked, logMu, writing, gate, reports, execs, errs, fatal,
                   published>>

\* signalMu.Lock()
ExLock(p) ==
    /\ At(p, "ex_lock")
    /\ wlocked = 0 /\ rlocked = {}
    /\ wlocked' = p
    /\ w' = [w EXCEPT ![p].pc = "ex_add"]
    /\ UNCHANGED <<cfg, maxSignal, newSignal, corpusSignal, corpus, workQueue,
                   rlocked, logMu, writing, gate, reports, execs, errs, fatal,
                   published>>

\* A hook that records the difference in newSignal only.
RecordMaxSkip(max, diff) == max

\* cover.SignalAdd(maxSignal, diff)
RecordMax(max, diff) == SignalAdd(max, diff)

\* cover.SignalAdd(newSignal, diff)
RecordNew(new, diff) == SignalAdd(new, diff)

\* The two additions, under the write lock; signalMu.Unlock()
ExAdd(p) ==
    /\ At(p, "ex_add")
    /\ maxSignal' = RecordMax(maxSignal, w[p].diff)
    /\ newSignal' = RecordNew(newSignal, w[p].diff)
    /\ wlocked' = 0
    /\ w' = [w EXCEPT ![p].pc = "ex_relock", ![p].diff = <<>>]
    /\ UNCHANGED <<cfg, corpusSignal, corpus, workQueue, rlocked, logMu, writing,
                   gate, reports, execs, errs, fatal, published>>

\* A triage item that carries the flags of execute swapped.
NewTriageSwapped(r, k) ==
    WorkTriage(Clone(r.eP), k - 1, r.info[k].Signal, r.eMin, r.eCand)

\* The work item execute enqueues for result k (1-based) of frame r.
NewTriage(r, k) ==
    WorkTriage(Clone(r.eP), k - 1, r.info[k].Signal, r.eCand, r.eMin)

\* signalMu.RLock(); proc.fuzzer.workQueue.enqueue(&WorkTriage{...})
ExEnqueue(p) ==
    /\ At(p, "ex_relock")
    /\ wlocked = 0
    /\ rlocked' = rlocked \cup {p}
    /\ workQueue' = enqueue(workQueue, NewTriage(w[p], w[p].idx))
    /\ w' = [w EXCEPT ![p].pc = "ex_range",
                      ![p].enq = Append(@, NewTriage(w[p], w[p].idx))]
    /\ UNCHANGED <<cfg, maxSignal, newSignal, corpusSignal, corpus, wlocked,
                   logMu, writing, gate, reports, execs, errs, fatal,
                   published>>

\* The frame after execute returned (info stays for the caller).
ExecuteReturn(r) ==
    IF r.eCaller = "loop" THEN ReturnToLoop(r)
    ELSE [r EXCEPT !.pc = ExRet(r.eCaller), !.eP = <<>>, !.eMin = FALSE,
                   !.eCand = FALSE, !.eCaller = "", !.eOpts = NoOpts,
                   !.idx = 0, !.novel = <<>>, !.enq = <<>>]

\* The range loop ends, under the read lock: return info; the deferred
\* signalMu.RUnlock() runs.
ExReturn(p) ==
    /\ At(p, "ex_range")
    /\ NovelAfter(w[p].info, w[p].idx, maxSignal) = {}
    /\ rlocked' = rlocked \ {p}
    /\ w' = [w EXCEPT ![p] = ExecuteReturn(@)]
    /\ UNCHANGED <<cfg, maxSignal, newSignal, corpusSignal, corpus, workQueue,
                   wlocked, logMu, writing, gate, reports, execs, errs, fatal,
                   published>>

(***************************************************************************)
(* prog.Minimize(p0, callIndex0, pred, false): the calls other than         *)
(* callIndex0 are removed one by one, from the last to the first, each     *)
(* removal kept when pred accepts the reduced program.                     *)
(***************************************************************************)
\* The frame of triageInput after Minimize returned: item.p, item.call are
\* assigned.
MinimizeReturn(r) ==
    [r EXCEPT !.pc = "tri_report", !.item.p = r.mP, !.item.call = r.mCall,
              !.mP = <<>>, !.mCall = 0, !.mI = 0, !.tryP = <<>>, !.tryCall = 0,
              !.info = <<>>]

\* The frame of Minimize's loop at index i (0-based), up to the next call of
\* pred, which begins with
\*   info := proc.execute(execOpts, p1, false, false, false, true, StatMinimize)
RECURSIVE MinimizeFrom(_, _)
MinimizeFrom(r, i) ==
    IF i < 0 THEN MinimizeReturn(r)
    ELSE IF i = r.mCall THEN MinimizeFrom(r, i - 1)
    ELSE CallExecute([r EXCEPT !.mI = i, !.tryP = removeCall(r.mP, i),
                               !.tryCall = IF i < r.mCall THEN r.mCall - 1
                                           ELSE r.mCall],
                     removeCall(r.mP, i), FALSE, FALSE, FALSE, TRUE, "pred")

\* item.p, item.call = prog.Minimize(item.p, item.call, pred, false)
CallMinimize(r) ==
    MinimizeFrom([r EXCEPT !.mP = r.item.p, !.mCall = r.item.call],
                 Len(r.item.p) - 1)

\* len(info) == 0 || len(info[call].Signal) == 0
NotExecutedSignal(info, call) ==
    IF Len(info) = 0 THEN TRUE ELSE Len(info[call + 1].Signal) = 0

\* A harvest that takes no run for one that executed the call.
NotExecutedCoverAlways(info, call) == TRUE

\* len(info) == 0 || len(info[call].Cover) == 0
NotExecutedCover(info, call) ==
    IF Len(info) = 0 THEN TRUE ELSE Len(info[call + 1].Cover) = 0

\* pred: return false, the call was not executed.
PredNotExecuted(p) ==
    /\ At(p, "min_pred")
    /\ NotExecutedSignal(w[p].info, w[p].tryCall)
    /\ w' = [w EXCEPT ![p] = MinimizeFrom(@, w[p].mI - 1)]
    /\ UNCHANGED <<cfg, maxSignal, newSignal, corpusSignal, corpus, workQueue,
                   rlocked, wlocked, logMu, writing, gate, reports, execs, errs,
                   fatal, published>>

\* pred: signalMu.RLock(); defer signalMu.RUnlock()
PredRLock(p) ==
    /\ At(p, "min_pred")
    /\ ~NotExecutedSignal(w[p].info, w[p].tryCall)
    /\ wlocked = 0
    /\ rlocked' = rlocked \cup {p}
    /\ w' = [w EXCEPT ![p].pc = "min_cmp"]
    /\ UNCHANGED <<cfg, maxSignal, newSignal, corpusSignal, corpus, workQueue,
                   wlocked, logMu, writing, gate, reports, execs, errs, fatal,
                   published>>

\* A predicate that accepts every reduced program whose call was executed.
PredAcceptsAny(new, info, call) == TRUE

\* len(cover.Intersection(newSignal, signal)) != len(newSignal) is false
PredAccepts(new, info, call) ==
    Len(Intersection(new, Canonicalize(info[call + 1].Signal))) = Len(new)

\* pred: return true; Minimize keeps the reduced program.
PredAccept(p) ==
    /\ At(p, "min_cmp")
    /\ PredAccepts(w[p].tNew, w[p].info, w[p].tryCall)
    /\ rlocked' = rlocked \ {p}
    /\ w' = [w EXCEPT ![p] =
               MinimizeFrom([@ EXCEPT !.mP = w[p].tryP, !.mCall = w[p].tryCall],
                            w[p].mI - 1)]
    /\ UNCHANGED <<cfg, maxSignal, newSignal, corpusSignal, corpus, workQueue,
                   wlocked, logMu, writing, gate, reports, execs, errs, fatal,
                   published>>

\* pred: return false; Minimize drops the reduced program.
PredReject(p) ==
    /\ At(p, "min_cmp")
    /\ ~PredAccepts(w[p].tNew, w[p].info, w[p].tryCall)
    /\ rlocked' = rlocked \ {p}
    /\ w' = [w EXCEPT ![p] = MinimizeFrom(@, w[p].mI - 1)]
    /\ UNCHANGED <<cfg, maxSignal, newSignal, corpusSignal, corpus, workQueue,
                   wlocked, logMu, writing, gate, reports, execs, errs, fatal,
                   published>>

(***************************************************************************)
(* Proc.triageInput.                                                       *)
(***************************************************************************)
\* opts := *execOpts; opts.Flags |= ipc.FlagCollectCover;
\* opts.Flags &= ^ipc.FlagCollide
TriageOpts == [execOpts EXCEPT !.cover = TRUE, !.collide = FALSE]

\* signalMu.RLock()
TriRLock(p) ==
    /\ At(p, "tri_rlock")
    /\ wlocked = 0
    /\ rlocked' = rlocked \cup {p}
    /\ w' = [w EXCEPT ![p].pc = "tri_diff"]
    /\ UNCHANGED <<cfg, maxSignal, newSignal, corpusSignal, corpus, workQueue,
                   wlocked, logMu, writing, gate, reports, execs, errs, fatal,
                   published>>

\* newSignal := cover.SignalDiff(corpusSignal, item.signal); signalMu.RUnlock();
\* if len(newSignal) == 0 { return }
TriRedundant(p) ==
    /\ At(p, "tri_diff")
    /\ Len(SignalDiff(corpusSignal, w[p].item.signal)) = 0
    /\ rlocked' = rlocked \ {p}
    /\ w' = [w EXCEPT ![p] = ReturnToLoop(@)]
    /\ UNCHANGED <<cfg, maxSignal, newSignal, corpusSignal, corpus, workQueue,
                   wlocked, logMu, writing, gate, reports, execs, errs, fatal,
                   published>>

\* newSignal = cover.Canonicalize(newSignal), and the first
\* info := proc.executeRaw(&opts, item.p, StatTriage) of either loop.
TriStart(p) ==
    /\ At(p, "tri_diff")
    /\ Len(SignalDiff(corpusSignal, w[p].item.signal)) # 0
    /\ rlocked' = rlocked \ {p}
    /\ w' = [w EXCEPT ![p] =
               CallRaw([@ EXCEPT !.tNew = Canonicalize(
                                     SignalDiff(corpusSignal, w[p].item.signal)),
                                 !.n = 0],
                       w[p].item.p, TriageOpts,
                       IF w[p].item.minimized THEN "harvest" ELSE "deflake")]
    /\ UNCHANGED <<cfg, maxSignal, newSignal, corpusSignal, corpus, workQueue,
                   wlocked, logMu, writing, gate, reports, execs, errs, fatal,
                   published>>

\* item.minimized: continue, the call was not executed.
TriHarvestAgain(p) ==
    /\ At(p, "tri_harvest")
    /\ NotExecutedCover(w[p].info, w[p].item.call)
    /\ w[p].n + 1 < TriageRuns
    /\ w' = [w EXCEPT ![p] = CallRaw([@ EXCEPT !.n = @ + 1], w[p].item.p,
                                     TriageOpts, "harvest")]
    /\ UNCHANGED <<cfg, maxSignal, newSignal, corpusSignal, corpus, workQueue,
                   rlocked, wlocked, logMu, writing, gate, reports, execs, errs,
                   fatal, published>>

\* item.minimized: inputCover = append([]uint32{}, info[item.call].Cover...);
\* break, or the loop ends.
TriHarvestDone(p) ==
    /\ At(p, "tri_harvest")
    /\ (IF NotExecutedCover(w[p].info, w[p].item.call)
        THEN w[p].n + 1 >= TriageRuns ELSE TRUE)
    /\ w' = [w EXCEPT ![p].pc = "tri_report",
                      ![p].inputCover =
                          IF NotExecutedCover(w[p].info, w[p].item.call) THEN <<>>
                          ELSE w[p].info[w[p].item.call + 1].Cover,
                      ![p].info = <<>>, ![p].n = 0]
    /\ UNCHANGED <<cfg, maxSignal, newSignal, corpusSignal, corpus, workQueue,
                   rlocked, wlocked, logMu, writing, gate, reports, execs, errs,
                   fatal, published>>

\* The frame at the end of one round of the loop over the 3 runs of a not
\* minimized item: the next executeRaw, or Minimize after the last.
DeflakeNext(r) ==
    IF r.n + 1 < TriageRuns
    THEN CallRaw([r EXCEPT !.n = @ + 1], r.item.p, TriageOpts, "deflake")
    ELSE CallMinimize([r EXCEPT !.n = 0, !.notexecuted = FALSE, !.info = <<>>,
                                !.missed = <<>>])

\* if notexecuted { return }
TriDeflakeGiveUp(p) ==
    /\ At(p, "tri_deflake")
    /\ NotExecutedSignal(w[p].info, w[p].item.call)
    /\ w[p].notexecuted
    /\ w' = [w EXCEPT ![p] = ReturnToLoop(@)]
    /\ UNCHANGED <<cfg, maxSignal, newSignal, corpusSignal, corpus, workQueue,
                   rlocked, wlocked, logMu, writing, gate, reports, execs, errs,
                   fatal, published>>

\* notexecuted = true; continue
TriDeflakeSkip(p) ==
    /\ At(p, "tri_deflake")
    /\ NotExecutedSignal(w[p].info, w[p].item.call)
    /\ ~w[p].notexecuted
    /\ w' = [w EXCEPT ![p] = DeflakeNext([@ EXCEPT !.notexecuted = TRUE,
                                                    !.missed = Append(@, w[p].n)])]
    /\ UNCHANGED <<cfg, maxSignal, newSignal, corpusSignal, corpus, workQueue,
                   rlocked, wlocked, logMu, writing, gate, reports, execs, errs,
                   fatal, published>>

\* A deflaking that takes the signal of the last run for the new signal.
DeflakedLast(new, info, call) == Canonicalize(info[call + 1].Signal)

\* newSignal = cover.Intersection(newSignal, cover.Canonicalize(inf.Signal))
Deflaked(new, info, call) ==
    Intersection(new, Canonicalize(info[call + 1].Signal))

\* if len(newSignal) == 0 { return }
TriDeflakeEmpty(p) ==
    /\ At(p, "tri_deflake")
    /\ ~NotExecutedSignal(w[p].info, w[p].item.call)
    /\ Len(Deflaked(w[p].tNew, w[p].info, w[p].item.call)) = 0
    /\ w' = [w EXCEPT ![p] = ReturnToLoop(@)]
    /\ UNCHANGED <<cfg, maxSignal, newSignal, corpusSignal, corpus, workQueue,
                   rlocked, wlocked, logMu, writing, gate, reports, execs, errs,
                   fatal, published>>

\* A run that executed the call makes the triage forget the run that did not.
TriDeflakeKeepForgets(p) ==
    /\ At(p, "tri_deflake")
    /\ ~NotExecutedSignal(w[p].info, w[p].item.call)
    /\ Len(Deflaked(w[p].tNew, w[p].info, w[p].item.call)) # 0
    /\ w' = [w EXCEPT ![p] =
               DeflakeNext([@ EXCEPT
                   !.notexecuted = FALSE,
                   !.tNew = Deflaked(w[p].tNew, w[p].info, w[p].item.call),
                   !.inputCover =
                       IF Len(w[p].inputCover) = 0
                       THEN w[p].info[w[p].item.call + 1].Cover
                       ELSE Union(w[p].inputCover,
                                  w[p].info[w[p].item.call + 1].Cover)])]
    /\ UNCHANGED <<cfg, maxSignal, newSignal, corpusSignal, corpus, workQueue,
                   rlocked, wlocked, logMu, writing, gate, reports, execs, errs,
                   fatal, published>>

\* inputCover = append([]uint32{}, inf.Cover...), or
\* inputCover = cover.Union(inputCover, inf.Cover)
TriDeflakeKeep(p) ==
    /\ At(p, "tri_deflake")
    /\ ~NotExecutedSignal(w[p].info, w[p].item.call)
    /\ Len(Deflaked(w[p].tNew, w[p].info, w[p].item.call)) # 0
    /\ w' = [w EXCEPT ![p] =
               DeflakeNext([@ EXCEPT
                   !.tNew = Deflaked(w[p].tNew, w[p].info, w[p].item.call),
                   !.inputCover =
                       IF Len(w[p].inputCover) = 0
                       THEN w[p].info[w[p].item.call + 1].Cover
                       ELSE Union(w[p].inputCover,
                                  w[p].info[w[p].item.call + 1].Cover)])]
    /\ UNCHANGED <<cfg, maxSignal, newSignal, corpusSignal, corpus, workQueue,
                   rlocked, wlocked, logMu, writing, gate, reports, execs, errs,
                   fatal, published>>

\* a := &NewInputArgs{...}
NewInputArgs(r) ==
    [Call |-> r.item.p[r.item.call + 1], Prog |-> r.item.p,
     Signal |-> Canonicalize(r.item.signal), Cover |-> r.inputCover]

\* manager.Call("Manager.NewInput", a, nil) returns nil.
TriReport(p) ==
    /\ At(p, "tri_report")
    /\ reports' = Append(reports, NewInputArgs(w[p]))
    /\ w' = [w EXCEPT ![p].pc = "tri_lock"]
    /\ UNCHANGED <<cfg, maxSignal, newSignal, corpusSignal, corpus, workQueue,
                   rlocked, wlocked, logMu, writing, gate, execs, errs, fatal,
                   published>>

\* manager.Call("Manager.NewInput", a, nil) returns an error: panic(err)
TriReportFail(p) ==
    /\ At(p, "tri_report")
    /\ cfg.rpcFails
    /\ fatal' = "rpc"
    /\ w' = [w EXCEPT ![p].pc = "panicked"]
    /\ UNCHANGED <<cfg, maxSignal, newSignal, corpusSignal, corpus, workQueue,
                   rlocked, wlocked, logMu, writing, gate, reports, execs, errs,
                   published>>

\* signalMu.Lock()
TriLock(p) ==
    /\ At(p, "tri_lock")
    /\ wlocked = 0 /\ rlocked = {}
    /\ wlocked' = p
    /\ w' = [w EXCEPT ![p].pc = "tri_add"]
    /\ UNCHANGED <<cfg, maxSignal, newSignal, corpusSignal, corpus, workQueue,
                   rlocked, logMu, writing, gate, reports, execs, errs, fatal,
                   published>>

\* A publication that leaves corpusSignal as it was.
CorpusAddedNothing(cs, item) == cs

\* A publication that adds the first identifier of the signal only.
CorpusAddedFirst(cs, item) == cs \cup {item.signal[1]}

\* cover.SignalAdd(corpusSignal, item.signal)
CorpusAdded(cs, item) == SignalAdd(cs, item.signal)

\* The addition, under the write lock; signalMu.Unlock()
TriAdd(p) ==
    /\ At(p, "tri_add")
    /\ corpusSignal' = CorpusAdded(corpusSignal, w[p].item)
    /\ published' = published \cup {w[p].dq}
    /\ wlocked' = 0
    /\ w' = [w EXCEPT ![p].pc = "tri_corpus"]
    /\ UNCHANGED <<cfg, maxSignal, newSignal, corpus, workQueue, rlocked, logMu,
                   writing, gate, reports, execs, errs, fatal>>

\* fuzzer.addInputToCorpus(p, sig)
addInputToCorpus(c, p) == Append(c, p)

\* proc.fuzzer.addInputToCorpus(item.p, sig); a minimized item returns.
TriCorpus(p) ==
    /\ At(p, "tri_corpus")
    /\ corpus' = addInputToCorpus(corpus, w[p].item.p)
    /\ w' = [w EXCEPT ![p] = IF w[p].item.minimized THEN ReturnToLoop(@)
                             ELSE [@ EXCEPT !.pc = "tri_smash"]]
    /\ UNCHANGED <<cfg, maxSignal, newSignal, corpusSignal, workQueue, rlocked,
                   wlocked, logMu, writing, gate, reports, execs, errs, fatal,
                   published>>

\* if !item.minimized { proc.fuzzer.workQueue.enqueue(&WorkSmash{item.p, item.call}) }
TriSmash(p) ==
    /\ At(p, "tri_smash")
    /\ workQueue' = enqueue(workQueue, WorkSmash(w[p].item.p, w[p].item.call))
    /\ w' = [w EXCEPT ![p] = ReturnToLoop(@)]
    /\ UNCHANGED <<cfg, maxSignal, newSignal, corpusSignal, corpus, rlocked,
                   wlocked, logMu, writing, gate, reports, execs, errs, fatal,
                   published>>

(***************************************************************************)
(* Proc.smashInput, Proc.failCall, Proc.executeHintSeed.                   *)
(***************************************************************************)
\* opts := *proc.fuzzer.execOpts; opts.Flags |= ipc.FlagInjectFault;
\* opts.FaultCall = call; opts.FaultNth = nth
FailOpts(call, nth) ==
    [execOpts EXCEPT !.fault = TRUE, !.faultCall = call, !.faultNth = nth]

\* The frame of failCall at trial nth, up to its call of executeRaw.
FailTrial(r, nth) ==
    CallRaw([r EXCEPT !.nth = nth], r.item.p, FailOpts(r.item.call, nth), "failCall")

\* A failCall that stops at the first trial that injected the fault.
FailStopsInjected(info, call) ==
    IF Len(info) # 0 /\ Len(info) > call THEN info[call + 1].FaultInjected
    ELSE FALSE

\* info != nil && len(info) > call && !info[call].FaultInjected
FailStops(info, call) ==
    IF Len(info) # 0 /\ Len(info) > call THEN ~info[call + 1].FaultInjected
    ELSE FALSE

\* break, or nth reached 100: failCall returns into smashInput.
FailDone(p) ==
    /\ At(p, "fail_check")
    /\ (IF FailStops(w[p].info, w[p].item.call) THEN TRUE
        ELSE w[p].nth + 1 >= FailCap)
    /\ w' = [w EXCEPT ![p].pc = "smash_snap", ![p].info = <<>>]
    /\ UNCHANGED <<cfg, maxSignal, newSignal, corpusSignal, corpus, workQueue,
                   rlocked, wlocked, logMu, writing, gate, reports, execs, errs,
                   fatal, published>>

\* The next trial.
FailNext(p) ==
    /\ At(p, "fail_check")
    /\ ~FailStops(w[p].info, w[p].item.call)
    /\ w[p].nth + 1 < FailCap
    /\ w' = [w EXCEPT ![p] = FailTrial(@, w[p].nth + 1)]
    /\ UNCHANGED <<cfg, maxSignal, newSignal, corpusSignal, corpus, workQueue,
                   rlocked, wlocked, logMu, writing, gate, reports, execs, errs,
                   fatal, published>>

\* A round that mutates the item's program itself.
SmashRoundInPlace(r, n, prog) ==
    CallExecute([r EXCEPT !.n = n, !.item.p = prog], prog, FALSE, FALSE, FALSE,
                FALSE, "smash")

\* The frame of one round of smashInput's loop: p := item.p.Clone();
\* p.Mutate(...); proc.execute(proc.fuzzer.execOpts, p, false, false, false,
\* false, StatSmash)
SmashRound(r, n, prog) ==
    CallExecute([r EXCEPT !.n = n], prog, FALSE, FALSE, FALSE, FALSE, "smash")

\* corpus := proc.fuzzer.corpusSnapshot(), and the first round.
SmashSnapshot(p) ==
    /\ At(p, "smash_snap")
    /\ \E prog \in Mutate(Clone(w[p].item.p), corpus) :
          w' = [w EXCEPT ![p] = SmashRound([@ EXCEPT !.snapshot = corpus,
                                               !.nth = 0], 0, prog)]
    /\ UNCHANGED <<cfg, maxSignal, newSignal, corpusSignal, corpus, workQueue,
                   rlocked, wlocked, logMu, writing, gate, reports, execs, errs,
                   fatal, published>>

\* The next round.
SmashNext(p) ==
    /\ At(p, "smash_next")
    /\ w[p].n + 1 < SmashIters
    /\ \E prog \in Mutate(Clone(w[p].item.p), w[p].snapshot) :
          w' = [w EXCEPT ![p] = SmashRound(@, w[p].n + 1, prog)]
    /\ UNCHANGED <<cfg, maxSignal, newSignal, corpusSignal, corpus, workQueue,
                   rlocked, wlocked, logMu, writing, gate, reports, execs, errs,
                   fatal, published>>

\* The loop ends; without compsSupported smashInput returns.
SmashEnd(p) ==
    /\ At(p, "smash_next")
    /\ w[p].n + 1 >= SmashIters
    /\ ~cfg.compsSupported
    /\ w' = [w EXCEPT ![p] = ReturnToLoop(@)]
    /\ UNCHANGED <<cfg, maxSignal, newSignal, corpusSignal, corpus, workQueue,
                   rlocked, wlocked, logMu, writing, gate, reports, execs, errs,
                   fatal, published>>

\* The loop ends; executeHintSeed:
\* info := proc.execute(proc.fuzzer.execOpts, p, true, false, false, true, StatSeed)
SmashSeed(p) ==
    /\ At(p, "smash_next")
    /\ w[p].n + 1 >= SmashIters
    /\ cfg.compsSupported
    /\ w' = [w EXCEPT ![p] = CallExecute([@ EXCEPT !.n = 0, !.snapshot = <<>>],
                                         w[p].item.p, TRUE, FALSE, FALSE, TRUE,
                                         "seed")]
    /\ UNCHANGED <<cfg, maxSignal, newSignal, corpusSignal, corpus, workQueue,
                   rlocked, wlocked, logMu, writing, gate, reports, execs, errs,
                   fatal, published>>

\* The frame of MutateWithHints with left mutants to come: the callback's
\* proc.execute(proc.fuzzer.execOpts, p, false, false, false, false, StatHint),
\* or the return of executeHintSeed and smashInput.
HintsFrom(r, left) ==
    IF left = 0 THEN ReturnToLoop(r)
    ELSE CallExecute([r EXCEPT !.hints = left - 1], Clone(r.item.p),
                     FALSE, FALSE, FALSE, FALSE, "hint")

\* if info == nil { return }
SeedNil(p) ==
    /\ At(p, "seed_check")
    /\ Len(w[p].info) = 0
    /\ w' = [w EXCEPT ![p] = ReturnToLoop(@)]
    /\ UNCHANGED <<cfg, maxSignal, newSignal, corpusSignal, corpus, workQueue,
                   rlocked, wlocked, logMu, writing, gate, reports, execs, errs,
                   fatal, published>>

\* p.MutateWithHints(call, info[call].Comps, ...)
SeedHints(p) ==
    /\ At(p, "seed_check")
    /\ Len(w[p].info) # 0
    /\ w' = [w EXCEPT ![p] = HintsFrom(@, w[p].info[w[p].item.call + 1].Comps)]
    /\ UNCHANGED <<cfg, maxSignal, newSignal, corpusSignal, corpus, workQueue,
                   rlocked, wlocked, logMu, writing, gate, reports, execs, errs,
                   fatal, published>>

\* The callback returned: the next mutant, or the end.
HintNext(p) ==
    /\ At(p, "hint_next")
    /\ w' = [w EXCEPT ![p] = HintsFrom(@, w[p].hints)]
    /\ UNCHANGED <<cfg, maxSignal, newSignal, corpusSignal, corpus, workQueue,
                   rlocked, wlocked, logMu, writing, gate, reports, execs, errs,
                   fatal, published>>

(***************************************************************************)
(* Proc.loop.                                                              *)
(***************************************************************************)
CanLoop(p) == At(p, "loop") /\ w[p].i < cfg.maxIter

\* case *WorkCandidate
LoopCandidate(p) ==
    /\ CanLoop(p)
    /\ \E item \in Items(workQueue) :
          /\ item.kind = "candidate"
          /\ workQueue' = remove(workQueue, item)
          /\ w' = [w EXCEPT ![p] =
                     CallExecute([@ EXCEPT !.path = "candidate", !.item = item,
                                           !.dq = item],
                                 item.p, FALSE, item.minimized, TRUE, FALSE, "loop")]
    /\ UNCHANGED <<cfg, maxSignal, newSignal, corpusSignal, corpus, rlocked,
                   wlocked, logMu, writing, gate, reports, execs, errs, fatal,
                   published>>

\* case *WorkTriage
LoopTriage(p) ==
    /\ CanLoop(p)
    /\ \E item \in Items(workQueue) :
          /\ item.kind = "triage"
          /\ workQueue' = remove(workQueue, item)
          /\ w' = [w EXCEPT ![p].path = "triage", ![p].item = item,
                            ![p].dq = item, ![p].pc = "tri_rlock"]
    /\ UNCHANGED <<cfg, maxSignal, newSignal, corpusSignal, corpus, rlocked,
                   wlocked, logMu, writing, gate, reports, execs, errs, fatal,
                   published>>

\* case *WorkSmash; if faultInjectionEnabled { proc.failCall(item.p, item.call) }
LoopSmash(p) ==
    /\ CanLoop(p)
    /\ \E item \in Items(workQueue) :
          /\ item.kind = "smash"
          /\ workQueue' = remove(workQueue, item)
          /\ w' = [w EXCEPT ![p] =
                     IF cfg.faultInjectionEnabled
                     THEN FailTrial([@ EXCEPT !.path = "smash", !.item = item,
                                               !.dq = item], 0)
                     ELSE [@ EXCEPT !.path = "smash", !.item = item,
                                    !.dq = item, !.pc = "smash_snap"]]
    /\ UNCHANGED <<cfg, maxSignal, newSignal, corpusSignal, corpus, rlocked,
                   wlocked, logMu, writing, gate, reports, execs, errs, fatal,
                   published>>

\* item == nil
LoopPollEmpty(p) ==
    /\ CanLoop(p)
    /\ workQueue = EmptyBag
    /\ w' = [w EXCEPT ![p].pc = "loop_idle"]
    /\ UNCHANGED <<cfg, maxSignal, newSignal, corpusSignal, corpus, workQueue,
                   rlocked, wlocked, logMu, writing, gate, reports, execs, errs,
                   fatal, published>>

\* A loop that generates on every other iteration.
LoopPathEveryOther(snapshot, i) ==
    IF Len(snapshot) = 0 \/ i % 2 = 0 THEN "generate" ELSE "fuzz"

\* A loop that generates only while the corpus is empty.
LoopPathNoCadence(snapshot, i) ==
    IF Len(snapshot) = 0 THEN "generate" ELSE "fuzz"

\* if len(corpus) == 0 || i%100 == 0
LoopPath(snapshot, i) ==
    IF Len(snapshot) = 0 \/ i % GenPeriod = 0 THEN "generate" ELSE "fuzz"

\* The frame of an idle iteration that took path with program prog.
IdlePath(r, path, prog) ==
    CallExecute([r EXCEPT !.path = path, !.idle = @ + 1,
                          !.pathIdle = r.idle, !.pathCorpus = Len(corpus)],
                prog, FALSE, FALSE, FALSE, FALSE, "loop")

\* corpus := proc.fuzzer.corpusSnapshot(); p := target.Generate(...)
LoopGenerate(p) ==
    /\ At(p, "loop_idle")
    /\ LoopPath(corpus, w[p].i) = "generate"
    /\ \E prog \in Generate : w' = [w EXCEPT ![p] = IdlePath(@, "generate", prog)]
    /\ UNCHANGED <<cfg, maxSignal, newSignal, corpusSignal, corpus, workQueue,
                   rlocked, wlocked, logMu, writing, gate, reports, execs, errs,
                   fatal, published>>

\* corpus := proc.fuzzer.corpusSnapshot();
\* p := corpus[proc.rnd.Intn(len(corpus))].Clone(); p.Mutate(...)
LoopFuzz(p) ==
    /\ At(p, "loop_idle")
    /\ LoopPath(corpus, w[p].i) = "fuzz"
    /\ \E k \in 1..Len(corpus) : \E prog \in Mutate(Clone(corpus[k]), corpus) :
          w' = [w EXCEPT ![p] = IdlePath(@, "fuzz", prog)]
    /\ UNCHANGED <<cfg, maxSignal, newSignal, corpusSignal, corpus, workQueue,
                   rlocked, wlocked, logMu, writing, gate, reports, execs, errs,
                   fatal, published>>

Next ==
    \E p \in Procs :
        \/ RawEnter(p) \/ MirrorLock(p) \/ MirrorUnlock(p) \/ MirrorWrite(p)
        \/ MirrorClose(p) \/ MirrorSkip(p)
        \/ ExecBug(p) \/ ExecPanic(p) \/ ExecRetry(p) \/ RawBackoff(p) \/ ExecOk(p)
        \/ ExRLock(p) \/ ExNovel(p) \/ ExLock(p) \/ ExAdd(p) \/ ExEnqueue(p)
        \/ ExReturn(p)
        \/ PredNotExecuted(p) \/ PredRLock(p) \/ PredAccept(p) \/ PredReject(p)
        \/ TriRLock(p) \/ TriRedundant(p) \/ TriStart(p)
        \/ TriHarvestAgain(p) \/ TriHarvestDone(p)
        \/ TriDeflakeGiveUp(p) \/ TriDeflakeSkip(p) \/ TriDeflakeEmpty(p)
        \/ TriDeflakeKeep(p)
        \/ TriReport(p) \/ TriReportFail(p) \/ TriLock(p) \/ TriAdd(p)
        \/ TriCorpus(p) \/ TriSmash(p)
        \/ FailDone(p) \/ FailNext(p)
        \/ SmashSnapshot(p) \/ SmashNext(p) \/ SmashEnd(p) \/ SmashSeed(p)
        \/ SeedNil(p) \/ SeedHints(p) \/ HintNext(p)
        \/ LoopTriage(p) \/ LoopCandidate(p) \/ LoopSmash(p)
        \/ LoopPollEmpty(p) \/ LoopGenerate(p) \/ LoopFuzz(p)

Spec == Init /\ [][Next]_vars

(***************************************************************************)
(* Positions.                                                              *)
(***************************************************************************)
\* Inside executeRaw, between gate.Enter and the deferred gate.Leave.
InRaw == {"raw_mirror", "raw_logged", "raw_written", "raw_exec", "raw_backoff"}

\* Inside execute, after executeRaw returned.
InHook == {"ex_rlock", "ex_range", "ex_lock", "ex_add", "ex_relock"}

\* In a caller of execute, right after execute returned to it.
AfterExecute == {"min_pred", "min_cmp", "smash_next", "seed_check", "hint_next"}

(***************************************************************************)
(* C1: in every reachable state, whatever the number of Procs and the       *)
(* interleaving of execute and triageInput, corpusSignal is a subset of    *)
(* maxSignal and newSignal is a subset of maxSignal.                       *)
(***************************************************************************)
C1_SignalSubsets ==
    /\ corpusSignal \subseteq maxSignal
    /\ newSignal \subseteq maxSignal

\* A triage has grown corpusSignal while another Proc is recording new signal.
C1_Witness ==
    /\ Cardinality(cfg.procs) > 1
    /\ corpusSignal # {}
    /\ \E p \in Procs : w[p].pc = "ex_add" /\ w[p].diff # <<>>

(***************************************************************************)
(* C2 as claimed: an executeRaw whose every attempt fails with a transient *)
(* error (failed false) has called env.Exec at most 10 times when it       *)
(* panics.                                                                 *)
(***************************************************************************)
C2_AtMostTenCalls ==
    \A p \in Procs :
        w[p].pc = "panicked" /\ fatal = "transient" => w[p].rExecs <= RetryLimit

(***************************************************************************)
(* C2 amended: such an executeRaw panics at its 12th call of env.Exec (the *)
(* first attempt and 11 retries), and no executeRaw calls env.Exec more    *)
(* than 12 times.                                                          *)
(***************************************************************************)
C2_TwelveCalls ==
    \A p \in Procs :
        /\ w[p].rExecs <= RetryLimit + 2
        /\ w[p].pc = "panicked" /\ fatal = "transient"
              => w[p].rExecs = RetryLimit + 2

C2_Witness ==
    \E p \in Procs : w[p].pc = "panicked" /\ fatal = "transient" /\ w[p].rExecs > RetryLimit

(***************************************************************************)
(* C3: executeRaw does not retry without end: try never exceeds 11; each   *)
(* result of env.Exec ends the run in exactly one way, a return of the     *)
(* per-call results, a return of nil (BUG) or a panic, or leads to a       *)
(* backoff and one more attempt; and a transient failure of the attempt    *)
(* that follows 11 retries panics instead of returning or retrying.        *)
(***************************************************************************)
C3_RetryBounded ==
    \A p \in Procs :
        LET r == w[p] IN
        /\ r.try <= RetryLimit + 1
        /\ r.rOut.class = "retry" => r.pc \in {"raw_backoff", "raw_exec"} /\ r.try = r.rExecs
        /\ r.rOut.class = "panic" => r.pc = "panicked" /\ fatal = r.rOut.err
        /\ r.rOut.class \in {"ok", "bug"} => r.pc \notin InRaw /\ fatal # r.rOut.err
        /\ r.rOut.class = "bug" => r.info = <<>>
        /\ r.rExecs = RetryLimit + 2 /\ r.rOut.err = "transient" /\ ~r.rOut.failed
              => r.pc = "panicked" /\ fatal = "transient"

\* The 11th retry failed like all attempts before it and the Proc panicked.
C3_Witness ==
    \E p \in Procs :
        /\ w[p].try = RetryLimit + 1
        /\ w[p].rOut = [failed |-> FALSE, err |-> "transient", class |-> "panic"]

(***************************************************************************)
(* C4: an ExecutorFailure error with failed false makes executeRaw panic   *)
(* on that attempt, whatever try is: the Proc is not in a backoff, makes   *)
(* no further attempt and returns nothing.                                 *)
(***************************************************************************)
C4_ExecutorFailureIsFatal ==
    \A p \in Procs :
        w[p].rOut.err = "ExecutorFailure" /\ ~w[p].rOut.failed
            => /\ w[p].pc = "panicked"
               /\ fatal = "ExecutorFailure"
               /\ w[p].rOut.class = "panic"

\* An ExecutorFailure after some retries.
C4_Witness ==
    \E p \in Procs :
        /\ w[p].rOut.err = "ExecutorFailure" /\ ~w[p].rOut.failed
        /\ w[p].try > 1 /\ w[p].try < RetryLimit

(***************************************************************************)
(* C5: when env.Exec sets failed, whatever error comes with it, executeRaw *)
(* returns no per-call results (it neither retries nor panics), and the    *)
(* execute that called it never gets to record signal or enqueue an item.  *)
(***************************************************************************)
C5_BugDropsResults ==
    \A p \in Procs :
        w[p].rOut.failed
            => /\ w[p].rOut.class = "bug"
               /\ w[p].pc \notin InRaw \cup {"ex_lock", "ex_add", "ex_relock"}
               /\ fatal # "" /\ w[p].pc = "panicked" => fatal = "rpc"
               /\ w[p].info = <<>>
               /\ w[p].novel = <<>> /\ w[p].enq = <<>>

\* execute ranges over the nothing a failed run with an error returned.
C5_Witness ==
    \E p \in Procs :
        /\ w[p].rOut.failed /\ w[p].rOut.err # "nil"
        /\ w[p].pc = "ex_range"

(***************************************************************************)
(* C6: a Proc holds exactly one ticket of the gate while it is inside      *)
(* executeRaw, retries and backoffs included, and none anywhere else, also *)
(* after a BUG return and after a panic: every ticket entered is left      *)
(* exactly once.                                                           *)
(***************************************************************************)
C6_TicketScoped ==
    \A p \in Procs : gate[p] = (IF w[p].pc \in InRaw THEN 1 ELSE 0)

\* A Proc that panicked after retrying holds no ticket.
C6_Witness ==
    \E p \in Procs : w[p].pc = "panicked" /\ w[p].try > 0 /\ gate[p] = 0

(***************************************************************************)
(* C7: an iteration of loop takes one path.  A dequeued item goes to its   *)
(* handler (a candidate to execute with candidate true and the item's      *)
(* minimized flag) and no idle path is taken; with nothing dequeued and an *)
(* empty corpus snapshot the iteration generates, at i = 0 too; with       *)
(* nothing dequeued, a corpus and i not a multiple of 100 it mutates.      *)
(***************************************************************************)
C7_OnePath ==
    \A p \in Procs :
        LET r == w[p] IN
        /\ r.dq.kind # "none" => r.path = r.dq.kind
        /\ r.path \in {"triage", "candidate", "smash"} => r.dq.kind = r.path
        /\ r.path \in {"generate", "fuzz"} => r.dq = NoItem
        /\ r.path = "candidate" /\ r.eCaller = "loop"
              => r.eCand /\ r.eMin = r.dq.minimized /\ r.eP = r.dq.p
        /\ r.path \in {"generate", "fuzz"} /\ r.pathCorpus = 0 => r.path = "generate"
        /\ r.path \in {"generate", "fuzz"} /\ r.pathCorpus > 0 /\ r.i % 100 # 0
              => r.path = "fuzz"
        /\ r.path = "fuzz" => r.pathCorpus > 0

\* The mutate path past the first hundred iterations.
C7_Witness ==
    \E p \in Procs :
        w[p].path = "fuzz" /\ w[p].pathCorpus > 0 /\ w[p].i > 100 /\ w[p].i % 100 # 0

(***************************************************************************)
(* C8 as claimed: with a corpus, the iterations that generate are every    *)
(* 100th idle iteration, however many work items were processed before.    *)
(***************************************************************************)
C8_EveryHundredthIdle ==
    \A p \in Procs :
        w[p].path = "generate" /\ w[p].pathCorpus > 0 => w[p].pathIdle % 100 = 0

(***************************************************************************)
(* C8 amended: with a corpus, an idle iteration generates exactly when     *)
(* loop's counter i is a multiple of 100, and i counts every iteration of  *)
(* the loop, those that processed a work item as well as the idle ones.    *)
(***************************************************************************)
C8_EveryHundredthIteration ==
    \A p \in Procs :
        LET r == w[p] IN
        /\ r.path \in {"generate", "fuzz"} /\ r.pathCorpus > 0
              => (r.path = "generate" <=> r.i % 100 = 0)
        /\ r.idle <= r.i + 1
        /\ r.path \in {"generate", "fuzz"} => r.pathIdle = r.idle - 1
        /\ r.dq.kind # "none" => r.idle <= r.i

\* Iteration 100 generates although fewer than 100 idle ones came before.
C8_Witness ==
    \E p \in Procs :
        /\ w[p].path = "generate" /\ w[p].pathCorpus > 0
        /\ w[p].i = 100 /\ w[p].pathIdle < 100

(***************************************************************************)
(* C9: in execute, each per-call result whose signal has an identifier not *)
(* in maxSignal when it is tested gets that signal into maxSignal and      *)
(* newSignal and exactly one triage item, with the program, the index of   *)
(* the call, the call's raw signal and the flags execute was given; other  *)
(* results get none.  No result ranged over is new against maxSignal       *)
(* afterwards, nor is any once execute has returned, and equal signals of  *)
(* one execution get one item.                                             *)
(***************************************************************************)
C9_NoveltyHook ==
    \A p \in Procs :
        LET r == w[p] IN
        /\ r.pc \in {"ex_lock", "ex_add", "ex_relock"}
              => /\ Len(r.novel) = Len(r.enq) + 1
                 /\ r.novel[Len(r.novel)] = r.idx
        /\ r.pc \in {"ex_rlock", "ex_range"} => Len(r.novel) = Len(r.enq)
        /\ r.pc = "ex_relock"
              => Range(r.info[r.idx].Signal) \subseteq maxSignal \cap newSignal
        /\ \A j \in 1..Len(r.enq) :
              r.enq[j] = [kind |-> "triage", p |-> r.eP, call |-> r.novel[j] - 1,
                          signal |-> r.info[r.novel[j]].Signal,
                          minimized |-> r.eMin, candidate |-> r.eCand]
        /\ \A j, k \in 1..Len(r.novel) :
              j < k => /\ r.novel[j] < r.novel[k]
                       /\ r.info[r.novel[j]].Signal # r.info[r.novel[k]].Signal
        /\ r.pc = "ex_range"
              => \A k \in 1..r.idx : ~SignalNew(maxSignal, r.info[k].Signal)
        /\ r.pc \in AfterExecute
              => \A k \in 1..Len(r.info) : ~SignalNew(maxSignal, r.info[k].Signal)

\* Two calls returned the same new signal, the range is over, and one item
\* was enqueued.
C9_Witness ==
    \E p \in Procs :
        LET r == w[p] IN
        /\ r.pc = "ex_range" /\ r.idx = 1 /\ Len(r.info) = 2
        /\ r.info[1].Signal = r.info[2].Signal
        /\ Len(r.enq) = 1
        /\ NovelAfter(r.info, r.idx, maxSignal) = {}

(***************************************************************************)
(* C10: a triage whose item's signal is all in corpusSignal at the check   *)
(* returns at once and changes nothing but the Proc's own position; and so *)
(* does the triage of an item equal to one whose triage has added its      *)
(* signal to corpusSignal.                                                 *)
(***************************************************************************)
C10_RedundantTriage ==
    [][\A p \in Procs :
          /\ w[p].pc = "tri_diff"
          /\ w'[p] # w[p]
          /\ \/ Range(w[p].item.signal) \subseteq corpusSignal
             \/ w[p].dq \in published
          => /\ w'[p].pc = "loop"
             /\ w'[p].i = w[p].i + 1
             /\ rlocked' = rlocked \ {p}
             /\ UNCHANGED <<maxSignal, newSignal, corpusSignal, corpus, workQueue,
                            wlocked, gate, reports, execs, errs, fatal, published>>]_vars

\* A Proc is about to check an item equal to one already published.
C10_Witness ==
    \E p \in Procs :
        /\ w[p].pc = "tri_diff"
        /\ w[p].dq \in published
        /\ Len(reports) = 1

(***************************************************************************)
(* C11: in the triage of a not minimized item the new signal is narrowed,  *)
(* at each of the at most 3 runs that executed the call, to its            *)
(* intersection with the canonicalized signal of the call in that run; and *)
(* the run that empties it ends the triage at once: no further run, no     *)
(* minimization, no report, no change of corpusSignal or corpus, no smash  *)
(* item.                                                                   *)
(***************************************************************************)
C11_DeflakeNarrows ==
    /\ [](\A p \in Procs :
             LET r == w[p] IN
             /\ r.pc = "tri_deflake" => r.n \in 0..2 /\ ~r.item.minimized
             /\ r.tNew = SortedSeq(Range(r.tNew))
             /\ Range(r.tNew) \subseteq Range(r.item.signal))
    /\ [][\A p \in Procs :
            LET r == w[p]
                q == w'[p]
            IN  /\ r.pc = "tri_deflake"
                /\ q # r
                /\ Len(r.info) # 0
                /\ Len(r.info[r.item.call + 1].Signal) # 0
                => LET kept == Range(r.tNew) \cap Range(r.info[r.item.call + 1].Signal)
                   IN  IF kept = {}
                       THEN /\ q.pc = "loop" /\ q.i = r.i + 1
                            /\ UNCHANGED <<maxSignal, newSignal, corpusSignal, corpus,
                                           workQueue, reports, execs, gate, published,
                                           rlocked, wlocked, fatal>>
                       ELSE /\ q.tNew = SortedSeq(kept)
                            /\ q.pc \in {"raw_enter", "tri_report"}
                            /\ q.rCaller = (IF q.pc = "tri_report" THEN ""
                                            ELSE IF r.n < 2 THEN "deflake"
                                            ELSE "execute")
                            /\ r.n < 2 => q.n = r.n + 1]_vars

\* The third run executed the call with a signal that shares nothing with
\* what the first two runs left of the new signal.
C11_Witness ==
    \E p \in Procs :
        LET r == w[p] IN
        /\ r.pc = "tri_deflake" /\ r.n = 2 /\ r.missed = <<>>
        /\ Len(r.info) # 0
        /\ Len(r.info[r.item.call + 1].Signal) # 0
        /\ Len(r.tNew) # 0
        /\ Range(r.tNew) \cap Range(r.info[r.item.call + 1].Signal) = {}

(***************************************************************************)
(* C12: the predicate given to Minimize accepts a reduced program only     *)
(* when the run of it executed the call and the canonicalized signal of    *)
(* the call holds every identifier of the new signal as deflaking left it; *)
(* it rejects when the call was not executed or an identifier is missing.  *)
(* So Minimize keeps a reduction only when that run preserved the whole    *)
(* new signal, which does not change while Minimize runs.                  *)
(***************************************************************************)
C12_MinimizePreserves ==
    [][\A p \in Procs :
          LET r == w[p]
              q == w'[p]
              kept == IF q.pc = "tri_report" THEN q.item.p ELSE q.mP
              executed == IF Len(r.info) = 0 THEN FALSE
                          ELSE Len(r.info[r.tryCall + 1].Signal) # 0
              preserved == IF executed
                           THEN Range(r.tNew) \subseteq
                                    Range(r.info[r.tryCall + 1].Signal)
                           ELSE FALSE
          IN  /\ r.pc \in {"min_pred", "min_cmp"} /\ q # r
                 => /\ kept # r.mP => r.pc = "min_cmp" /\ preserved /\ kept = r.tryP
                    /\ r.pc = "min_cmp" => executed
                    /\ r.pc = "min_cmp" /\ ~preserved => kept = r.mP
                    /\ r.pc = "min_cmp" /\ preserved => kept = r.tryP
                    /\ r.pc = "min_pred" /\ ~executed
                          => kept = r.mP /\ q.pc # "min_cmp"
                    /\ r.pc = "min_pred" /\ executed => q.pc = "min_cmp"
              /\ r.mP # <<>> /\ q # r /\ q.pc \notin {"loop", "panicked"}
                 => q.tNew = r.tNew /\ Len(q.tNew) # 0]_vars

\* The predicate is about to accept a program with one call less.
C12_Witness ==
    \E p \in Procs :
        LET r == w[p] IN
        /\ r.pc = "min_cmp"
        /\ Len(r.tryP) < Len(r.mP)
        /\ Len(r.tNew) # 0
        /\ Range(r.tNew) \subseteq Range(r.info[r.tryCall + 1].Signal)

(***************************************************************************)
(* C13: failCall runs its trials for nth = 0, 1, 2, ... in order, stops    *)
(* right after the first trial whose result is there, covers the call and  *)
(* reports the fault as not injected, and runs no more than 100 trials; a  *)
(* trial without a result does not stop it.  When every trial returns a    *)
(* result and the call has FaultPoints faultable points, the last trial    *)
(* run is trial FaultPoints.                                               *)
(***************************************************************************)
C13_FailCallStops ==
    /\ [](\A p \in Procs :
             LET r == w[p] IN
             /\ r.rCaller = "failCall" \/ r.pc = "fail_check"
                   => /\ r.nth \in 0..99
                      /\ cfg.faultInjectionEnabled /\ r.path = "smash"
                      /\ cfg.faultPoints >= 0 => r.nth <= cfg.faultPoints
             /\ r.rCaller = "failCall"
                   => /\ r.rOpts.fault /\ r.rOpts.faultNth = r.nth
                      /\ r.rOpts.faultCall = r.item.call /\ r.rP = r.item.p
             /\ r.pc = "smash_snap" /\ cfg.faultInjectionEnabled
                /\ cfg.faultPoints >= 0 /\ ~cfg.envNoInfo /\ ~cfg.envBug
                   => r.nth = cfg.faultPoints)
    /\ [][\A p \in Procs :
            LET r == w[p]
                q == w'[p]
                stops == IF Len(r.info) > r.item.call
                         THEN ~r.info[r.item.call + 1].FaultInjected
                         ELSE FALSE
            IN  r.pc = "fail_check" /\ q # r
                => IF stops \/ r.nth = 99
                   THEN q.pc = "smash_snap" /\ q.nth = r.nth
                   ELSE /\ q.pc = "raw_enter" /\ q.rCaller = "failCall"
                        /\ q.nth = r.nth + 1]_vars

\* Trial FaultPoints of a call with FaultPoints faultable points returned
\* with the fault not injected.
C13_Witness ==
    \E p \in Procs :
        LET r == w[p] IN
        /\ r.pc = "fail_check" /\ cfg.faultPoints = FaultPoints
        /\ r.nth = FaultPoints
        /\ Len(r.info) > r.item.call
        /\ ~r.info[r.item.call + 1].FaultInjected

(***************************************************************************)
(* C14 as claimed: for every diagnostic sink, the write of the executed    *)
(* program is made while holding logMu, so no two Procs are inside a       *)
(* diagnostic write at the same time.                                      *)
(***************************************************************************)
C14_EveryWriteLocked ==
    /\ \A p \in writing : logMu = p
    /\ Cardinality(writing) <= 1

(***************************************************************************)
(* C14 amended: only with the sink "stdout" is the write made while        *)
(* holding logMu, and then at most one Proc is inside the write; with      *)
(* "dmesg" and "file" logMu is never taken and the Procs write without a   *)
(* lock, each with its own descriptor (and, for "file", its own file).     *)
(***************************************************************************)
C14_StdoutWriteLocked ==
    /\ \A p \in Procs :
          /\ p \in writing <=> w[p].pc \in {"raw_logged", "raw_written"}
          /\ w[p].pc = "raw_logged" <=> logMu = p
          /\ w[p].pc = "raw_logged" => cfg.flagOutput = "stdout"
          /\ w[p].pc = "raw_written" => cfg.flagOutput \in {"dmesg", "file"}
    /\ cfg.flagOutput = "stdout" => writing \subseteq {logMu} /\ Cardinality(writing) <= 1
    /\ cfg.flagOutput # "stdout" => logMu = 0
    /\ cfg.flagOutput = "none" => writing = {}

\* Two Procs are inside the write to the kernel log at the same time.
C14_Witness ==
    /\ cfg.flagOutput = "dmesg"
    /\ Cardinality(writing) = 2
    /\ logMu = 0

(***************************************************************************)
(* C15 as claimed: the triage of a not minimized item is abandoned for     *)
(* non-execution only when two consecutive runs did not execute the call.  *)
(***************************************************************************)
C15_ConsecutiveOnly ==
    \A p \in Procs :
        LET r == w[p] IN
        /\ r.pc = "tri_deflake"
        /\ r.notexecuted
        /\ (IF Len(r.info) = 0 THEN TRUE
            ELSE Len(r.info[r.item.call + 1].Signal) = 0)
        => r.missed # <<>> /\ r.missed[Len(r.missed)] = r.n - 1

(***************************************************************************)
(* C15 amended: among the at most 3 runs of the triage of a not minimized  *)
(* item, the first run that does not execute the call is tolerated and the *)
(* second one, consecutive to the first or not, ends the triage: no        *)
(* minimization, no report, no change of corpusSignal or corpus, no smash  *)
(* item.  The triage is abandoned only so, or on an empty intersection.    *)
(***************************************************************************)
C15_SecondMissAborts ==
    /\ [](\A p \in Procs :
             LET r == w[p] IN
             /\ r.notexecuted <=> r.missed # <<>>
             /\ Len(r.missed) <= 1
             /\ r.pc = "tri_deflake" /\ r.missed # <<>> => r.missed[1] < r.n)
    /\ [][\A p \in Procs :
            LET r == w[p]
                q == w'[p]
                miss == IF Len(r.info) = 0 THEN TRUE
                        ELSE Len(r.info[r.item.call + 1].Signal) = 0
                empty == IF miss THEN FALSE
                         ELSE Range(r.tNew) \cap
                                  Range(r.info[r.item.call + 1].Signal) = {}
            IN  r.pc = "tri_deflake" /\ q # r
                => /\ q.pc = "loop" <=> (miss /\ r.missed # <<>>) \/ empty
                   /\ q.pc = "loop"
                         => /\ q.i = r.i + 1
                            /\ UNCHANGED <<maxSignal, newSignal, corpusSignal,
                                           corpus, workQueue, reports, execs, gate,
                                           published, rlocked, wlocked, fatal>>
                   /\ miss /\ r.missed = <<>>
                         => /\ q.pc \in {"raw_enter", "tri_report"}
                            /\ q.tNew = r.tNew
                            /\ r.n < 2 => /\ q.missed = <<r.n>> /\ q.n = r.n + 1
                                          /\ q.rCaller = "deflake"]_vars

\* The first run did not execute the call, the second did, the third did not.
C15_Witness ==
    \E p \in Procs :
        LET r == w[p] IN
        /\ r.pc = "tri_deflake" /\ r.n = 2 /\ r.missed = <<0>>
        /\ (IF Len(r.info) = 0 THEN TRUE
            ELSE Len(r.info[r.item.call + 1].Signal) = 0)

(***************************************************************************)
(* C16: the triage of a minimized item whose signal is not redundant runs  *)
(* the program at most 3 times, stops at the first run with coverage for   *)
(* the call, does not return because the call was not executed (with no    *)
(* such run it reports empty coverage), never calls Minimize, goes on to   *)
(* the report and the corpus, and enqueues no smash item.                  *)
(***************************************************************************)
C16_MinimizedTriage ==
    /\ [](\A p \in Procs :
             LET r == w[p] IN
             /\ r.pc = "tri_harvest" \/ r.rCaller = "harvest"
                   => r.item.minimized /\ r.n \in 0..2 /\ r.path = "triage"
             /\ r.path = "triage" /\ r.item.minimized
                   => /\ r.pc \notin {"tri_deflake", "tri_smash", "min_pred", "min_cmp"}
                               \cup InHook
                      /\ r.rCaller \in {"", "harvest"}
                      /\ r.mP = <<>> /\ r.eCaller = "" /\ r.missed = <<>>)
    /\ [][\A p \in Procs :
            LET r == w[p]
                q == w'[p]
                got == IF Len(r.info) = 0 THEN FALSE
                       ELSE Len(r.info[r.item.call + 1].Cover) # 0
            IN  /\ r.pc = "tri_harvest" /\ q # r
                   => IF got
                      THEN /\ q.pc = "tri_report"
                           /\ q.inputCover = r.info[r.item.call + 1].Cover
                      ELSE IF r.n < 2
                      THEN q.pc = "raw_enter" /\ q.rCaller = "harvest" /\ q.n = r.n + 1
                      ELSE q.pc = "tri_report" /\ q.inputCover = <<>>
                /\ r.path = "triage" /\ r.item.minimized /\ q # r
                   => /\ q.pc = "loop" => r.pc \in {"tri_diff", "tri_corpus"}
                      /\ r.pc = "tri_report" => q.pc \in {"tri_lock", "panicked"}
                      /\ r.pc = "tri_corpus"
                            => /\ q.pc = "loop"
                               /\ corpus' = Append(corpus, r.item.p)
                               /\ r.dq \in published
                      /\ workQueue' = workQueue]_vars

\* The third run of a minimized item returned no coverage for the call either.
C16_Witness ==
    \E p \in Procs :
        LET r == w[p] IN
        /\ r.pc = "tri_harvest" /\ r.n = 2 /\ r.item.minimized
        /\ (IF Len(r.info) = 0 THEN TRUE
            ELSE Len(r.info[r.item.call + 1].Cover) = 0)

(***************************************************************************)
(* C17: a triage that publishes makes its effects in this order: the       *)
(* report to the manager, then the addition of the whole signal of the     *)
(* item, as it was captured, to corpusSignal under the write lock, then    *)
(* the append of the program to the corpus, then, for a not minimized      *)
(* item only, the enqueue of a smash item for the program and call as      *)
(* Minimize left them.  When the report fails the process panics with      *)
(* corpusSignal, corpus and the queue as they were, and nothing follows:   *)
(* the report is not retried.                                              *)
(***************************************************************************)
C17_PublishOrder ==
    /\ [](\A p \in Procs :
             LET r == w[p] IN
             /\ r.path = "triage" => r.item.signal = r.dq.signal
             /\ r.pc \in {"tri_lock", "tri_add", "tri_corpus", "tri_smash"}
                   => \E k \in 1..Len(reports) :
                         reports[k] = [Call |-> r.item.p[r.item.call + 1],
                                       Prog |-> r.item.p,
                                       Signal |-> SortedSeq(Range(r.dq.signal)),
                                       Cover |-> r.inputCover]
             /\ r.pc = "tri_add" => wlocked = p
             /\ r.pc \in {"tri_corpus", "tri_smash"}
                   => Range(r.dq.signal) \subseteq corpusSignal /\ r.dq \in published
             /\ r.pc = "tri_smash"
                   => /\ ~r.item.minimized
                      /\ \E k \in 1..Len(corpus) : corpus[k] = r.item.p
             /\ fatal = "rpc" => \E q \in Procs : w[q].pc = "panicked")
    /\ [][/\ fatal = ""
          /\ \A p \in Procs :
               LET r == w[p]
                   q == w'[p]
               IN  q # r =>
                   /\ r.pc = "tri_report"
                      => IF fatal' # ""
                         THEN /\ fatal' = "rpc" /\ q.pc = "panicked"
                              /\ UNCHANGED <<reports, corpusSignal, corpus, workQueue,
                                             maxSignal, newSignal, published>>
                         ELSE /\ q.pc = "tri_lock"
                              /\ Len(reports') = Len(reports) + 1
                              /\ UNCHANGED <<corpusSignal, corpus, workQueue>>
                   /\ r.pc = "tri_lock"
                      => /\ q.pc = "tri_add" /\ wlocked = 0 /\ rlocked = {}
                         /\ UNCHANGED <<reports, corpusSignal, corpus, workQueue>>
                   /\ r.pc = "tri_add"
                      => /\ q.pc = "tri_corpus" /\ wlocked' = 0
                         /\ corpusSignal' = corpusSignal \cup Range(r.dq.signal)
                         /\ UNCHANGED <<reports, corpus, workQueue>>
                   /\ r.pc = "tri_corpus"
                      => /\ q.pc = (IF r.item.minimized THEN "loop" ELSE "tri_smash")
                         /\ corpus' = Append(corpus, r.item.p)
                         /\ UNCHANGED <<reports, corpusSignal, workQueue>>
                   /\ r.pc = "tri_smash"
                      => /\ q.pc = "loop"
                         /\ workQueue' = workQueue (+) SetToBag({
                               [kind |-> "smash", p |-> r.item.p, call |-> r.item.call,
                                signal |-> <<>>, minimized |-> FALSE,
                                candidate |-> FALSE]})
                         /\ UNCHANGED <<reports, corpusSignal, corpus>>]_vars

\* A triage whose program Minimize reduced has reported, added the signal and
\* appended the program, and is about to enqueue the smash item.
C17_Witness ==
    \E p \in Procs :
        LET r == w[p] IN
        /\ r.pc = "tri_smash"
        /\ Len(r.item.p) < Len(r.dq.p)
        /\ Len(r.dq.signal) > 1

(***************************************************************************)
(* C18: smashInput makes exactly 100 mutate-and-execute rounds, with or    *)
(* without fault injection and comparison hints, each on a clone of the    *)
(* item's program and with the one corpus snapshot taken after the fault   *)
(* injection; the item's program, which is the one in the corpus, is not   *)
(* changed; and the order is fault injection, the 100 rounds, the hint     *)
(* seed.                                                                   *)
(***************************************************************************)
C18_SmashBudget ==
    /\ [](\A p \in Procs :
             LET r == w[p] IN
             r.path = "smash"
             => /\ r.item = r.dq
                /\ \E k \in 1..Len(corpus) : corpus[k] = r.item.p
                /\ r.n \in 0..99
                /\ r.rCaller = "failCall" \/ r.pc = "fail_check"
                      => cfg.faultInjectionEnabled /\ r.n = 0 /\ r.snapshot = <<>>
                /\ r.eCaller \in {"seed", "hint"} \/ r.pc \in {"seed_check", "hint_next"}
                      => cfg.compsSupported
                /\ r.eCaller = "smash" => r.eP \in cfg.progs /\ r.eOpts = execOpts
                /\ r.eCaller = "seed" => r.eP = r.item.p)
    /\ [][\A p \in Procs :
            LET r == w[p]
                q == w'[p]
            IN  q # r =>
                /\ r.path # "smash" /\ q.path = "smash"
                   => IF cfg.faultInjectionEnabled
                      THEN q.pc = "raw_enter" /\ q.rCaller = "failCall" /\ q.nth = 0
                      ELSE q.pc = "smash_snap"
                /\ r.path = "smash" /\ r.pc = "fail_check"
                   => \/ q.pc = "smash_snap"
                      \/ q.pc = "raw_enter" /\ q.rCaller = "failCall"
                /\ r.path = "smash" /\ r.pc = "smash_snap"
                   => /\ q.pc = "raw_enter" /\ q.eCaller = "smash"
                      /\ q.n = 0 /\ q.snapshot = corpus
                /\ r.path = "smash" /\ r.eCaller = "smash" /\ q.pc # "panicked"
                   => q.n = r.n /\ q.snapshot = r.snapshot
                /\ r.path = "smash" /\ r.pc = "smash_next"
                   => IF r.n < 99
                      THEN /\ q.pc = "raw_enter" /\ q.eCaller = "smash"
                           /\ q.n = r.n + 1 /\ q.snapshot = r.snapshot
                      ELSE IF cfg.compsSupported
                      THEN /\ q.pc = "raw_enter" /\ q.eCaller = "seed"
                           /\ q.eOpts.comps /\ ~q.eOpts.collide
                      ELSE q.pc = "loop"
                /\ r.path = "smash" /\ q.pc = "loop"
                   => \/ r.pc = "smash_next" /\ r.n = 99
                      \/ r.pc \in {"seed_check", "hint_next"}
                /\ r.path = "smash" /\ q.eCaller \in {"seed", "hint"} /\ r.eCaller = ""
                   => r.pc \in {"smash_next", "seed_check", "hint_next"}]_vars

\* The 100th round has returned, after fault injection and before the hints.
C18_Witness ==
    \E p \in Procs :
        LET r == w[p] IN
        /\ r.pc = "smash_next" /\ r.n = 99
        /\ cfg.faultInjectionEnabled /\ cfg.compsSupported
        /\ r.item = r.dq

(***************************************************************************)
(* C19: there is no data race on maxSignal, newSignal and corpusSignal: a  *)
(* Proc writes them only while it holds signalMu for writing and reads     *)
(* them only while it holds it; it gives the read lock back before it asks *)
(* for the write lock; and it holds signalMu in no mode while a program    *)
(* runs, during a backoff, or after execute or triageInput returned.       *)
(***************************************************************************)
C19_SignalLocking ==
    /\ [](/\ wlocked # 0 => rlocked = {} /\ wlocked \in Procs
          /\ \A p \in Procs :
                /\ p \in rlocked <=> w[p].pc \in {"ex_range", "tri_diff", "min_cmp"}
                /\ wlocked = p <=> w[p].pc \in {"ex_add", "tri_add"}
                /\ w[p].pc \in {"ex_lock", "tri_lock"} \cup InRaw
                              \cup {"raw_enter", "loop", "loop_idle", "panicked"}
                      => p \notin rlocked /\ wlocked # p)
    /\ [][/\ \/ maxSignal' # maxSignal
             \/ newSignal' # newSignal
             \/ corpusSignal' # corpusSignal
             => /\ wlocked \in Procs
                /\ rlocked = {}
                /\ w'[wlocked] # w[wlocked]
                /\ \A p \in Procs \ {wlocked} : w'[p] = w[p]
          /\ \A p \in Procs :
                /\ wlocked' = p /\ wlocked # p
                      => p \notin rlocked /\ rlocked = {} /\ wlocked = 0
                /\ p \in rlocked' /\ p \notin rlocked => wlocked = 0]_vars

\* A Proc has given its read lock back and waits for the write lock while the
\* other Proc reads.
C19_Witness ==
    \E p, q \in Procs :
        /\ p # q
        /\ w[p].pc = "ex_lock"
        /\ q \in rlocked

(***************************************************************************)
(* C20: the runs made through executeRaw directly, by the two loops of     *)
(* triageInput and by failCall, do not pass through the hook of execute:   *)
(* whatever signal they return, they leave maxSignal, newSignal and        *)
(* corpusSignal as they are and enqueue nothing.  Only a run made through  *)
(* execute (generate, fuzz, candidate, smash round, Minimize predicate,    *)
(* hint seed, hint mutant) grows maxSignal or newSignal or enqueues a      *)
(* triage item.                                                            *)
(***************************************************************************)
C20_RawBypassesHook ==
    /\ [](\A p \in Procs :
             LET r == w[p] IN
             /\ r.pc \in InHook
                   => /\ r.eCaller \in {"loop", "pred", "smash", "seed", "hint"}
                      /\ r.rCaller = ""
             /\ r.eCaller = "loop" => r.path \in {"generate", "fuzz", "candidate"}
             /\ r.rCaller \in {"harvest", "deflake", "failCall"}
                \/ r.pc \in {"tri_harvest", "tri_deflake", "fail_check"}
                   => r.eCaller = "" /\ r.novel = <<>> /\ r.enq = <<>>
             /\ r.pc \in InRaw \cup {"raw_enter"}
                   => /\ r.rCaller \in {"execute", "harvest", "deflake", "failCall"}
                      /\ r.rCaller = "execute" <=> r.eCaller # "")
    /\ [][/\ \A p \in Procs :
                LET r == w[p] IN
                /\ w'[p] # r
                /\ \/ r.rCaller \in {"harvest", "deflake", "failCall"}
                   \/ r.pc \in {"tri_harvest", "tri_deflake", "fail_check"}
                => UNCHANGED <<maxSignal, newSignal, corpusSignal, workQueue>>
          /\ \/ maxSignal' # maxSignal
             \/ newSignal' # newSignal
             \/ \E item \in BagToSet(workQueue') :
                   /\ item.kind = "triage"
                   /\ CopiesIn(item, workQueue') > CopiesIn(item, workQueue)
             => \E p \in Procs :
                   /\ w'[p] # w[p]
                   /\ w[p].pc \in {"ex_add", "ex_relock"}
                   /\ w[p].eCaller \in {"loop", "pred", "smash", "seed", "hint"}]_vars

\* A run of the triage loop has returned a signal that is new against
\* maxSignal.
C20_Witness ==
    \E p \in Procs :
        LET r == w[p] IN
        /\ r.pc \in {"tri_harvest", "tri_deflake"}
        /\ \E k \in 1..Len(r.info) : SignalNew(maxSignal, r.info[k].Signal)

====
